---- MODULE Spec2Model ----
(***************************************************************************)
(* A model of the president_classifier experimentation harness:            *)
(*   PA2_code/main.py         collate_batch, compute_perplexity,            *)
(*                            compute_classifier_accuracy, train_epoch,     *)
(*                            run_classifier, run_decoder, main             *)
(*   PA2_code/transformer.py  Head, MultiHeadAttention, Block, Encoder,     *)
(*                            Decoder (forward, generate)                   *)
(* Every component keeps its state in one record variable whose fields     *)
(* carry the names of the locals of the code it models.                    *)
(***************************************************************************)
EXTENDS Integers, Sequences, FiniteSets, TLC

VARIABLES collate, head, block, gen, evalrun, prog

vars == <<collate, head, block, gen, evalrun, prog>>

\* A component that the specification at hand does not exercise.
Idle == [pc |-> "idle"]

(***************************************************************************)
(* Sizes.  block_size is constants.block_size (32 in the reference         *)
(* configuration); every property below is parametric in it, and it is     *)
(* taken at a scaled value.                                                 *)
(***************************************************************************)
block_size == 2

\* Largest number of samples in one classification batch.
MaxBatch == 2

\* Token ids; id 0 is also the padding value of collate_batch.
TokenIds == {0, 1}

\* Class labels.
Labels == {0, 1}

Min(a, b) == IF a <= b THEN a ELSE b

Max(a, b) == IF a >= b THEN a ELSE b

\* All sequences over S of length at most n.
SeqsUpTo(S, n) == UNION {[1..k -> S] : k \in 0..n}

Zeros(n) == [k \in 1..n |-> 0]

RECURSIVE MaxLen(_)
\* The length of the longest sequence of a non-empty list of sequences.
MaxLen(data) ==
    IF Len(data) = 1 THEN Len(data[1])
    ELSE Max(Len(data[1]), MaxLen(Tail(data)))

(***************************************************************************)
(* main.py, collate_batch                                                  *)
(***************************************************************************)

\* torch.nn.utils.rnn.pad_sequence(data, batch_first=True, padding_value=0):
\* every sequence is right-padded with 0 to the length of the longest one.
pad_sequence(data) ==
    [r \in 1..Len(data) |-> data[r] \o Zeros(MaxLen(data) - Len(data[r]))]

\* A plausible slip: the matrix is not cut at block_size.
TruncateNot(m) == m

\* padded_sequences[:, :block_size]
Truncate(m) ==
    [r \in 1..Len(m) |-> SubSeq(m[r], 1, Min(block_size, Len(m[r])))]

\* torch.nn.functional.pad(m, (0, max(0, block_size - m.shape[1])), "constant", 0)
F_pad(m) ==
    [r \in 1..Len(m) |-> m[r] \o Zeros(Max(0, block_size - Len(m[1])))]

\* collate_batch(batch): batch is a non-empty list of (data, label) pairs.
collate_batch(b) ==
    LET data   == [r \in 1..Len(b) |-> b[r][1]]
        labels == [r \in 1..Len(b) |-> b[r][2]]
    IN  [padded_sequences |-> F_pad(Truncate(pad_sequence(data))),
         labels           |-> labels]

\* The samples a classification dataset can hold: a token-id sequence shorter
\* than, as long as, or longer than block_size, and a label.
Samples == SeqsUpTo(TokenIds, block_size + 1) \X Labels

Batches == UNION {[1..n -> Samples] : n \in 1..MaxBatch}

InitCollate ==
    /\ collate \in {[pc |-> "ready", batch |-> b,
                     padded_sequences |-> <<>>, labels |-> <<>>] : b \in Batches}
    /\ head = Idle /\ block = Idle /\ gen = Idle /\ evalrun = Idle /\ prog = Idle

CollateBatch ==
    /\ collate.pc = "ready"
    /\ collate' = [collate EXCEPT
                     !.pc = "done",
                     !.padded_sequences = collate_batch(collate.batch).padded_sequences,
                     !.labels = collate_batch(collate.batch).labels]
    /\ UNCHANGED <<head, block, gen, evalrun, prog>>

NextCollate == CollateBatch

SpecCollate == InitCollate /\ [][NextCollate]_vars

\* C1: after collate_batch every row of the token matrix has length exactly
\* block_size: row r is the first min(len_r, block_size) ids of sample r in
\* their order, followed by pad id 0 up to block_size; labels are stacked in
\* sample order.
C1_CollateShape ==
    collate.pc = "done" =>
        /\ Len(collate.padded_sequences) = Len(collate.batch)
        /\ \A r \in 1..Len(collate.batch) :
             LET data == collate.batch[r][1]
                 row  == collate.padded_sequences[r]
                 keep == Min(Len(data), block_size)
             IN  /\ Len(row) = block_size
                 /\ \A k \in 1..keep : row[k] = data[k]
                 /\ \A k \in (keep + 1)..block_size : row[k] = 0
                 /\ collate.labels[r] = collate.batch[r][2]

\* A collated batch holding a sample longer than block_size next to a
\* shorter, non-empty one.
C1_Witness ==
    /\ collate.pc = "done"
    /\ \E r, s \in 1..Len(collate.batch) :
         /\ Len(collate.batch[r][1]) > block_size
         /\ Len(collate.batch[s][1]) < block_size
         /\ Len(collate.batch[s][1]) > 0
         /\ collate.batch[r][1][block_size + 1] # 0

(***************************************************************************)
(* transformer.py, Head: one head of self-attention                        *)
(***************************************************************************)

\* The affinities q @ k^T * head_size^-0.5 are finite numbers; the model draws
\* them from a few quantised values.
Scores == {0, 1, 2}

\* An affinity: a finite score, or float('-inf').
Finite(s) == [neg_inf |-> FALSE, v |-> s]

NegInf == [neg_inf |-> TRUE, v |-> 0]

\* A plausible slip: the strict lower triangle, which hides the diagonal too.
trilStrict(i, j) == IF j < i THEN 1 ELSE 0

\* Head.__init__: the buffer torch.tril(torch.ones(block_size, block_size)),
\* entry (i, j) with 1 <= i, j <= block_size.
tril(i, j) == IF j <= i THEN 1 ELSE 0

\* wei.masked_fill(self.tril[:T, :T] == 0, float('-inf'))
masked_fill(wei, T) ==
    [i \in 1..T |-> [j \in 1..T |-> IF tril(i, j) = 0 THEN NegInf ELSE wei[i][j]]]

RECURSIVE SumSeq(_)
SumSeq(s) == IF Len(s) = 0 THEN 0 ELSE Head(s) + SumSeq(Tail(s))

\* exp of an affinity, up to the positive factor that softmax cancels: the
\* strictly increasing 2^v stands for e^v, and exp(-inf) is exactly 0.
Exp(a) == IF a.neg_inf THEN 0 ELSE 2 ^ a.v

\* F.softmax(wei, dim=-1): entry (i, j) is the exact fraction <<num, den>>,
\* den the sum of the row's exponentials.
softmax(wei, T) ==
    [i \in 1..T |->
        [j \in 1..T |->
            <<Exp(wei[i][j]), SumSeq([k \in 1..T |-> Exp(wei[i][k])])>>]]

\* Head.forward, from the affinities on: the mask for a decoding head, then
\* the normalisation.
Head_forward(decoding, T, scores) ==
    LET wei0 == [i \in 1..T |-> [j \in 1..T |-> Finite(scores[i][j])]]
        wei1 == IF decoding THEN masked_fill(wei0, T) ELSE wei0
    IN  [wei |-> wei1, att |-> softmax(wei1, T)]

InitHead ==
    /\ head \in {[pc |-> "constructed", decoding |-> d, T |-> 0, scores |-> <<>>,
                  wei |-> <<>>, att |-> <<>>] : d \in BOOLEAN}
    /\ collate = Idle /\ block = Idle /\ gen = Idle /\ evalrun = Idle /\ prog = Idle

\* One forward pass over a sequence of length T, 1 <= T <= block_size.
HeadForward ==
    /\ head.pc = "constructed"
    /\ \E T \in 1..block_size :
         \E scores \in [1..T -> [1..T -> Scores]] :
            head' = [head EXCEPT
                       !.pc = "forwarded",
                       !.T = T,
                       !.scores = scores,
                       !.wei = Head_forward(head.decoding, T, scores).wei,
                       !.att = Head_forward(head.decoding, T, scores).att]
    /\ UNCHANGED <<collate, block, gen, evalrun, prog>>

NextHead == HeadForward

SpecHead == InitHead /\ [][NextHead]_vars

\* C3: in a decoding head every affinity (i, j) with j > i is -inf before the
\* normalisation and its attention weight is exactly zero, every (i, j) with
\* j <= i stays unmasked, so no row is fully masked and every row's
\* normaliser is positive; in a non-decoding head no affinity is masked.
C3_CausalMask ==
    head.pc = "forwarded" =>
        \A i, j \in 1..head.T :
            IF head.decoding
            THEN /\ (j > i => head.wei[i][j].neg_inf /\ head.att[i][j][1] = 0)
                 /\ (j <= i => ~head.wei[i][j].neg_inf)
                 /\ head.att[i][j][2] > 0
            ELSE ~head.wei[i][j].neg_inf

\* A decoding head after a forward pass over a full-length sequence in which
\* a masked affinity was the largest of its row.
C3_Witness ==
    /\ head.pc = "forwarded"
    /\ head.decoding
    /\ head.T = block_size
    /\ head.T > 1
    /\ head.wei[1][2].neg_inf
    /\ head.scores[1][2] > head.scores[1][1]

(***************************************************************************)
(* transformer.py, MultiHeadAttention and Block                            *)
(***************************************************************************)

\* Largest embedding width and head count a Block is constructed with.
MaxEmbd == 8

MaxHead == 4

\* A plausible slip: the declared projection self.proj, a Linear onto n_embd,
\* is applied to the concatenation.
MultiHeadAttention_forward_proj(heads, n) == n

\* MultiHeadAttention.forward: torch.cat of the heads' outputs along the last
\* axis; self.proj is not applied.  The result's width is the sum of the
\* heads' widths.  n is the width self.proj would map onto.
MultiHeadAttention_forward(heads, n) == SumSeq(heads)

\* MultiHeadAttention.__init__: num_heads heads of width head_size each.
MultiHeadAttention_init(num_heads, head_size) ==
    [h \in 1..num_heads |-> head_size]

\* Block.__init__: head_size = n_embd // n_head; the remainder is not looked
\* at.
Block_init(n_embd, n_head) ==
    LET head_size == n_embd \div n_head
    IN  [head_size |-> head_size,
         heads     |-> MultiHeadAttention_init(n_head, head_size)]

\* The width of a + b under broadcasting of the last axis; -1 when the two
\* widths cannot be broadcast.
Broadcast(a, b) ==
    IF a = b THEN a ELSE IF a = 1 THEN b ELSE IF b = 1 THEN a ELSE -1

\* Block.forward on an input of width n_embd: x + self.sa(self.ln1(x)) needs
\* broadcastable widths, and self.ln2, a LayerNorm(n_embd), needs width n_embd
\* again.
Block_forward(n_embd, heads) ==
    LET sa == MultiHeadAttention_forward(heads, n_embd)
        x1 == Broadcast(n_embd, sa)
    IN  IF x1 = -1 \/ x1 # n_embd THEN "RuntimeError" ELSE "ok"

\* The configurations tried: every head at least one unit wide.
BlockConfigs ==
    {c \in [n_embd : 1..MaxEmbd, n_head : 1..MaxHead, decoding : BOOLEAN] :
        c.n_head <= c.n_embd}

InitBlock ==
    /\ block \in {[pc |-> "config", n_embd |-> c.n_embd, n_head |-> c.n_head,
                   decoding |-> c.decoding, head_size |-> 0, heads |-> <<>>,
                   error |-> "none"] : c \in BlockConfigs}
    /\ collate = Idle /\ head = Idle /\ gen = Idle /\ evalrun = Idle /\ prog = Idle

\* Block(n_embd, n_head, decoding)
BlockConstruct ==
    /\ block.pc = "config"
    /\ block' = [block EXCEPT
                   !.pc = "constructed",
                   !.head_size = Block_init(block.n_embd, block.n_head).head_size,
                   !.heads = Block_init(block.n_embd, block.n_head).heads]
    /\ UNCHANGED <<collate, head, gen, evalrun, prog>>

\* The first forward pass through the constructed Block.
BlockForward ==
    /\ block.pc = "constructed"
    /\ LET r == Block_forward(block.n_embd, block.heads)
       IN  block' = [block EXCEPT
                       !.pc = IF r = "ok" THEN "forwarded" ELSE "forward_failed",
                       !.error = IF r = "ok" THEN "none" ELSE r]
    /\ UNCHANGED <<collate, head, gen, evalrun, prog>>

NextBlock == BlockConstruct \/ BlockForward

SpecBlock == InitBlock /\ [][NextBlock]_vars

BlockConstructed == block.pc \in {"constructed", "forwarded", "forward_failed"}

\* C8 as stated: a Block with n_embd % n_head # 0 is never constructed, and a
\* constructed Block's concatenated multi-head width equals n_embd.
C8_Original ==
    BlockConstructed =>
        /\ block.n_embd % block.n_head = 0
        /\ MultiHeadAttention_forward(block.heads, block.n_embd) = block.n_embd

\* C8, amended: construction does not look at the remainder.  For
\* 1 <= n_head <= n_embd a constructed Block has n_head heads of width
\* n_embd // n_head; the concatenated width equals n_embd exactly when
\* n_embd % n_head = 0, and a Block built with a remainder fails in its first
\* forward pass, never before.
C8_Amended ==
    /\ BlockConstructed =>
         /\ Len(block.heads) = block.n_head
         /\ \A h \in 1..block.n_head : block.heads[h] = block.n_embd \div block.n_head
         /\ (MultiHeadAttention_forward(block.heads, block.n_embd) = block.n_embd
               <=> block.n_embd % block.n_head = 0)
    /\ block.pc = "forwarded" => block.n_embd % block.n_head = 0
    /\ block.pc = "forward_failed" =>
         /\ block.n_embd % block.n_head # 0
         /\ block.error = "RuntimeError"

\* A Block constructed with a remainder, whose first forward pass then failed
\* on the width mismatch.
C8_Witness ==
    /\ block.pc = "forward_failed"
    /\ block.n_embd % block.n_head # 0
    /\ block.head_size > 1
    /\ block.error = "RuntimeError"

(***************************************************************************)
(* transformer.py, Encoder.forward and Decoder.forward as they are called  *)
(***************************************************************************)

\* forward(self, idx, device, targets=None): the parameters that have no
\* default, in both Encoder and Decoder.
forward_required == <<"idx", "device">>

\* model(*args) is nn.Module.__call__, which hands args to forward; Python
\* raises TypeError when a parameter without a default gets no argument.
Bind(required, args) ==
    IF Len(args) < Len(required) THEN "TypeError" ELSE "none"

\* Encoder.forward: the class probabilities self.classifier(x), one tensor.
Encoder_forward(args) ==
    [exc |-> Bind(forward_required, args), kind |-> "tensor"]

\* Decoder.forward: return logits, loss -- a tuple.
Decoder_forward(args) ==
    [exc |-> Bind(forward_required, args), kind |-> "tuple"]

(***************************************************************************)
(* transformer.py, Decoder.generate                                        *)
(***************************************************************************)

\* Largest number of new tokens asked of generate.
MaxNew == 3

\* idx[:, -block_size:]
LastBlock(idx) ==
    IF Len(idx) <= block_size THEN idx
    ELSE SubSeq(idx, Len(idx) - block_size + 1, Len(idx))

InitGenerate ==
    /\ gen \in {[pc |-> "loop", seed |-> sd, idx |-> sd, max_new_tokens |-> n,
                 i |-> 0, exc |-> "none"] :
                   sd \in SeqsUpTo(TokenIds, block_size + 1) \ {<<>>},
                   n \in 0..MaxNew}
    /\ collate = Idle /\ head = Idle /\ block = Idle /\ evalrun = Idle /\ prog = Idle

\* One pass through the body of `for _ in range(max_new_tokens)`.
GenerateIteration ==
    /\ gen.pc = "loop"
    /\ gen.i < gen.max_new_tokens
    /\ LET idx_cond == LastBlock(gen.idx)
           r        == Decoder_forward(<<idx_cond>>)    \* self(idx_cond)
       IN  IF r.exc # "none"
           THEN gen' = [gen EXCEPT !.pc = "raised", !.exc = r.exc]
           ELSE \E idx_next \in TokenIds :               \* torch.multinomial
                  gen' = [gen EXCEPT !.idx = gen.idx \o <<idx_next>>,
                                     !.i = gen.i + 1]
    /\ UNCHANGED <<collate, head, block, evalrun, prog>>

\* return idx, once the loop has run max_new_tokens times.
GenerateReturn ==
    /\ gen.pc = "loop"
    /\ gen.i = gen.max_new_tokens
    /\ gen' = [gen EXCEPT !.pc = "returned"]
    /\ UNCHANGED <<collate, head, block, evalrun, prog>>

NextGenerate == GenerateIteration \/ GenerateReturn

SpecGenerate == InitGenerate /\ [][NextGenerate]_vars

\* C2: generate on a seed of length S with count N returns a sequence of
\* length exactly S + N whose first S elements are the seed; the call never
\* ends any other way.
C2_GenerateLength ==
    gen.pc \in {"returned", "raised"} =>
        /\ gen.pc = "returned"
        /\ Len(gen.idx) = Len(gen.seed) + gen.max_new_tokens
        /\ SubSeq(gen.idx, 1, Len(gen.seed)) = gen.seed

(***************************************************************************)
(* main.py, compute_perplexity and compute_classifier_accuracy             *)
(***************************************************************************)

\* Longest loader and largest explicit eval_iters argument.
MaxLoader == 3

MaxCap == 2

\* Largest cross-entropy loss of one batch, in whole units.
MaxLoss == 2

\* eval_iters at module level: the number of evaluation batches.
eval_iters == 200

\* def compute_perplexity(decoderLMmodel, data_loader, eval_iters=100)
compute_perplexity_eval_iters == 100

\* A batch of a classification loader, with what the network would compute on
\* it: its number of samples, the number of them whose argmax class equals the
\* label, and its cross-entropy loss.
CLSBatches ==
    {[size |-> n, correct |-> c, loss |-> l] :
        n \in 1..MaxBatch, c \in 0..MaxBatch, l \in 0..MaxLoss}
    \ {b \in [size : 1..MaxBatch, correct : 0..MaxBatch, loss : 0..MaxLoss] :
         b.correct > b.size}

\* A batch of a language-modeling loader, with the cross-entropy loss the
\* network would have on it.
LMBatches == {[loss |-> l] : l \in 0..MaxLoss}

\* The eval_iters argument of a call: left out, or given.
CapArgs == {[given |-> FALSE, v |-> 0]} \cup {[given |-> TRUE, v |-> c] : c \in 1..MaxCap}

\* What a run has done to the model so far: its mode, the gradient mode, the
\* exception that ended the run, and the calls made, each with the modes it
\* was made in.
FreshRun == [training |-> TRUE, grad_enabled |-> TRUE, exc |-> "none", events |-> <<>>]

Event(m, op) ==
    [m EXCEPT !.events = Append(@, [op |-> op, training |-> m.training,
                                    grad |-> m.grad_enabled])]

Raise(m, e) == [m EXCEPT !.exc = e]

Count(events, op) == Cardinality({k \in 1..Len(events) : events[k].op = op})

\* The value eval_iters has inside compute_perplexity.
BoundCap(arg) == IF arg.given THEN arg.v ELSE compute_perplexity_eval_iters

\* torch.exp(torch.tensor(losses).mean()): exp of sum / n, kept as the pair;
\* the mean of no losses is nan.
Perplexity(losses) ==
    IF Len(losses) = 0 THEN [nan |-> TRUE, sum |-> 0, n |-> 0]
    ELSE [nan |-> FALSE, sum |-> SumSeq(losses), n |-> Len(losses)]

RECURSIVE PerplexityLoop(_, _, _, _)
\* for X, Y in data_loader: the forward pass, the loss, the break at eval_iters.
PerplexityLoop(m, loader, cap, losses) ==
    IF loader = <<>> THEN [m |-> m, losses |-> losses]
    ELSE LET m1 == Event(m, "forward")
             r  == Decoder_forward(<<"X">>)          \* decoderLMmodel(X)
         IN  IF r.exc # "none"
             THEN [m |-> Raise(m1, r.exc), losses |-> losses]
             ELSE IF r.kind = "tuple"                 \* B, T, C = logits.shape
             THEN [m |-> Raise(m1, "AttributeError"), losses |-> losses]
             ELSE LET ls == Append(losses, Head(loader).loss)
                  IN  IF Len(ls) >= cap
                      THEN [m |-> m1, losses |-> ls]
                      ELSE PerplexityLoop(m1, Tail(loader), cap, ls)

\* compute_perplexity(decoderLMmodel, data_loader[, eval_iters]) on a model in
\* the state m.  There is no torch.no_grad() in it.
compute_perplexity(m, data_loader, arg) ==
    LET cap == BoundCap(arg)
        m1  == [m EXCEPT !.training = FALSE]          \* decoderLMmodel.eval()
        r   == PerplexityLoop(m1, data_loader, cap, <<>>)
    IN  IF r.m.exc # "none"
        THEN [m |-> r.m, eval_iters |-> cap, losses |-> r.losses,
              value |-> Perplexity(<<>>)]
        ELSE [m |-> [r.m EXCEPT !.training = TRUE],   \* decoderLMmodel.train()
              eval_iters |-> cap, losses |-> r.losses,
              value |-> Perplexity(r.losses)]

RECURSIVE AccuracyLoop(_, _)
\* for X, Y in data_loader: the forward pass and the two counters.
AccuracyLoop(acc, loader) ==
    IF loader = <<>> THEN acc
    ELSE LET m1 == Event(acc.m, "forward")
             r  == Encoder_forward(<<"X">>)          \* classifier(X)
         IN  IF r.exc # "none"
             THEN [acc EXCEPT !.m = Raise(m1, r.exc)]
             ELSE AccuracyLoop(
                    [m |-> m1,
                     total_correct |-> acc.total_correct + Head(loader).correct,
                     total_samples |-> acc.total_samples + Head(loader).size],
                    Tail(loader))

\* compute_classifier_accuracy(classifier, data_loader) on a model in the
\* state m.  The body runs inside `with torch.no_grad()`, which an exception
\* leaves too; accuracy is the fraction <<100 * total_correct, total_samples>>.
compute_classifier_accuracy(m, data_loader) ==
    LET m1  == [m EXCEPT !.training = FALSE,          \* classifier.eval()
                         !.grad_enabled = FALSE]      \* with torch.no_grad()
        acc == AccuracyLoop([m |-> m1, total_correct |-> 0, total_samples |-> 0],
                            data_loader)
        out == [acc.m EXCEPT !.grad_enabled = m.grad_enabled]
    IN  IF acc.m.exc # "none"
        THEN [m |-> out, total_correct |-> acc.total_correct,
              total_samples |-> acc.total_samples, value |-> <<>>]
        ELSE IF acc.total_samples = 0
        THEN [m |-> Raise(out, "ZeroDivisionError"),
              total_correct |-> acc.total_correct,
              total_samples |-> acc.total_samples, value |-> <<>>]
        ELSE [m |-> [out EXCEPT !.training = TRUE],   \* classifier.train()
              total_correct |-> acc.total_correct,
              total_samples |-> acc.total_samples,
              value |-> <<100 * acc.total_correct, acc.total_samples>>]

\* A model right after construction: no evaluation has been called yet.
InitEval ==
    /\ evalrun = [pc |-> "ready", fn |-> "none", data_loader |-> <<>>,
                  arg |-> [given |-> FALSE, v |-> 0], m |-> FreshRun,
                  eval_iters |-> 0, losses |-> <<>>,
                  total_correct |-> 0, total_samples |-> 0,
                  perplexity |-> Perplexity(<<>>), accuracy |-> <<>>]
    /\ collate = Idle /\ head = Idle /\ block = Idle /\ gen = Idle /\ prog = Idle

\* An evaluation can be called on a fresh model or after one has returned; an
\* exception ends the run.
EvalCallable == evalrun.pc \in {"ready", "returned"}

Ended(m) == IF m.exc = "none" THEN "returned" ELSE "raised"

\* A call compute_perplexity(model, data_loader[, eval_iters]).
ComputePerplexity ==
    /\ EvalCallable
    /\ \E loader \in SeqsUpTo(LMBatches, MaxLoader), arg \in CapArgs :
         LET r == compute_perplexity([evalrun.m EXCEPT !.events = <<>>], loader, arg)
         IN  evalrun' = [evalrun EXCEPT
                           !.pc = Ended(r.m), !.fn = "compute_perplexity",
                           !.data_loader = loader, !.arg = arg, !.m = r.m,
                           !.eval_iters = r.eval_iters, !.losses = r.losses,
                           !.perplexity = r.value]
    /\ UNCHANGED <<collate, head, block, gen, prog>>

\* A call compute_classifier_accuracy(model, data_loader).
ComputeClassifierAccuracy ==
    /\ EvalCallable
    /\ \E loader \in SeqsUpTo(CLSBatches, MaxLoader) :
         LET r == compute_classifier_accuracy([evalrun.m EXCEPT !.events = <<>>], loader)
         IN  evalrun' = [evalrun EXCEPT
                           !.pc = Ended(r.m), !.fn = "compute_classifier_accuracy",
                           !.data_loader = loader, !.m = r.m,
                           !.total_correct = r.total_correct,
                           !.total_samples = r.total_samples,
                           !.accuracy = r.value]
    /\ UNCHANGED <<collate, head, block, gen, prog>>

NextEval == ComputePerplexity \/ ComputeClassifierAccuracy

SpecEval == InitEval /\ [][NextEval]_vars

EvalEnded == evalrun.pc \in {"returned", "raised"}

\* C4: compute_classifier_accuracy always returns, for any loader, the value
\* 100 * total_correct / total_samples over the whole loader, which lies in
\* [0, 100]; total_correct never exceeds total_samples.
C4_AccuracyBound ==
    evalrun.fn = "compute_classifier_accuracy" /\ EvalEnded =>
        /\ evalrun.pc = "returned"
        /\ evalrun.total_correct <= evalrun.total_samples
        /\ evalrun.total_samples =
             SumSeq([k \in 1..Len(evalrun.data_loader) |-> evalrun.data_loader[k].size])
        /\ evalrun.accuracy = <<100 * evalrun.total_correct, evalrun.total_samples>>
        /\ 0 <= evalrun.accuracy[1]
        /\ evalrun.accuracy[1] <= 100 * evalrun.accuracy[2]

\* C6: compute_perplexity evaluates exactly min(cap, number of batches)
\* batches, the cap being 200 when the caller gives none and the caller's
\* value otherwise, and returns the exponential of the mean of exactly those
\* batches' losses.
C6_PerplexityCap ==
    evalrun.fn = "compute_perplexity" /\ EvalEnded =>
        /\ evalrun.eval_iters = IF evalrun.arg.given THEN evalrun.arg.v ELSE eval_iters
        /\ evalrun.pc = "returned"
        /\ Len(evalrun.losses) = Min(evalrun.eval_iters, Len(evalrun.data_loader))
        /\ Count(evalrun.m.events, "forward") = Len(evalrun.losses)
        /\ evalrun.perplexity = Perplexity(evalrun.losses)

\* C7: in both evaluations every forward pass runs with the model in
\* evaluation mode and gradient tracking off, and the evaluation ends by
\* returning with the model back in training mode.
C7_EvalMode ==
    EvalEnded =>
        /\ \A k \in 1..Len(evalrun.m.events) :
             evalrun.m.events[k].op = "forward" =>
                 /\ ~evalrun.m.events[k].training
                 /\ ~evalrun.m.events[k].grad
        /\ evalrun.pc = "returned"
        /\ evalrun.m.training

(***************************************************************************)
(* main.py, train_epoch, run_classifier, run_decoder                       *)
(***************************************************************************)

\* max_iters at module level: the cap on language-modeling training batches.
max_iters == 500

\* constants.epochs_CLS, at a scaled value.
epochs_CLS == 2

\* Longest training loader of a pipeline run.
MaxTrainBatches == 2

\* optimizer.zero_grad(); loss.backward(); optimizer.step()
OptimizerStep(m) == Event(Event(Event(m, "zero_grad"), "backward"), "step")

RECURSIVE TrainEpochLoop(_, _)
\* for batch, (X, Y) in enumerate(data_loader): the forward pass, the
\* counters, the loss, the optimizer step.
TrainEpochLoop(acc, loader) ==
    IF loader = <<>> THEN acc
    ELSE LET m1 == Event(acc.m, "forward")
             r  == Encoder_forward(<<"X">>)          \* model(X)
         IN  IF r.exc # "none"
             THEN [acc EXCEPT !.m = Raise(m1, r.exc)]
             ELSE TrainEpochLoop(
                    [m |-> OptimizerStep(m1),
                     train_loss    |-> acc.train_loss + Head(loader).loss,
                     total_correct |-> acc.total_correct + Head(loader).correct,
                     total_samples |-> acc.total_samples + Head(loader).size],
                    Tail(loader))

\* train_epoch(data_loader, model, optimizer): returns (accuracy,
\* average_train_loss), each kept as the fraction <<numerator, denominator>>.
train_epoch(m, data_loader) ==
    LET num_batches == Len(data_loader)
        m0  == [m EXCEPT !.training = TRUE]           \* model.train()
        acc == TrainEpochLoop([m |-> m0, train_loss |-> 0, total_correct |-> 0,
                               total_samples |-> 0], data_loader)
    IN  IF acc.m.exc # "none" THEN [m |-> acc.m, value |-> <<>>]
        ELSE IF num_batches = 0
        THEN [m |-> Raise(acc.m, "ZeroDivisionError"), value |-> <<>>]
        ELSE [m |-> acc.m,
              value |-> <<<<acc.total_correct, acc.total_samples>>,
                          <<acc.train_loss, num_batches>>>>]

RECURSIVE EpochLoop(_, _, _)
\* run_classifier: for epoch in range(epochs_CLS): train_epoch(...); print(...)
EpochLoop(m, train_CLS_loader, epoch) ==
    IF epoch >= epochs_CLS THEN m
    ELSE LET r == train_epoch(Event(m, "train_epoch"), train_CLS_loader)
         IN  IF r.m.exc # "none" THEN r.m
             ELSE EpochLoop(Event(r.m, "print"), train_CLS_loader, epoch + 1)

\* run_classifier from the epoch loop on: the epochs, then the one accuracy
\* evaluation on the held-out loader and its print.
run_classifier_train(train_CLS_loader, test_CLS_loader) ==
    LET m == EpochLoop(FreshRun, train_CLS_loader, 0)
    IN  IF m.exc # "none" THEN m
        ELSE LET a == compute_classifier_accuracy(
                        Event(m, "compute_classifier_accuracy"), test_CLS_loader)
             IN  IF a.m.exc # "none" THEN a.m ELSE Event(a.m, "print")

RECURSIVE DecoderTrainLoop(_, _, _)
\* run_decoder: for i, (xb, yb) in enumerate(train_LM_loader), with the break
\* at max_iters, the forward pass, the loss and the optimizer step.
DecoderTrainLoop(m, loader, i) ==
    IF loader = <<>> THEN m
    ELSE IF i >= max_iters THEN m
    ELSE LET m1 == Event(m, "forward")
             r  == Decoder_forward(<<"xb">>)         \* decoder(xb)
         IN  IF r.exc # "none" THEN Raise(m1, r.exc)
             ELSE IF r.kind = "tuple"                 \* B, T, C = logits.shape
             THEN Raise(m1, "AttributeError")
             ELSE DecoderTrainLoop(OptimizerStep(m1), Tail(loader), i + 1)

RECURSIVE RepeatPerplexity(_, _, _)
\* n times: print(..., compute_perplexity(decoder, loader)), eval_iters left
\* to its default.
RepeatPerplexity(m, loader, n) ==
    IF n = 0 THEN m
    ELSE LET r == compute_perplexity(Event(m, "compute_perplexity"), loader,
                                     [given |-> FALSE, v |-> 0])
         IN  IF r.m.exc # "none" THEN r.m
             ELSE RepeatPerplexity(Event(r.m, "print"), loader, n - 1)

RECURSIVE EvalFiles(_, _)
\* for file in files: ... for i in range(5): print(..., compute_perplexity(...))
EvalFiles(m, test_LM_loaders) ==
    IF test_LM_loaders = <<>> THEN m
    ELSE LET r == RepeatPerplexity(m, Head(test_LM_loaders), 5)
         IN  IF r.exc # "none" THEN r ELSE EvalFiles(r, Tail(test_LM_loaders))

\* run_decoder from the training loop on: the loop, the perplexity on the
\* training loader, then the three held-out files.
run_decoder_train(train_LM_loader, test_LM_loaders) ==
    LET m == DecoderTrainLoop(FreshRun, train_LM_loader, 0)
    IN  IF m.exc # "none" THEN m
        ELSE LET p == RepeatPerplexity(m, train_LM_loader, 1)
             IN  IF p.exc # "none" THEN p ELSE EvalFiles(p, test_LM_loaders)

(***************************************************************************)
(* main.py, main: the command line                                         *)
(***************************************************************************)

\* The command line carries no -mode flag.
NoFlag == "<absent>"

\* parser.add_argument("-mode", choices=[...])
choices == {"e", "d", "se", "sd"}

\* The command lines tried: no flag, each valid mode, and two other values.
Argv == {NoFlag} \cup choices \cup {"c", "x"}

\* A plausible slip: the flag is declared without choices.
parse_args_any(argv) ==
    [error |-> FALSE, mode |-> IF argv = NoFlag THEN "None" ELSE argv]

\* parser.parse_args(): a missing optional flag leaves args.mode at None; a
\* value outside choices is an argparse error (usage on stderr, exit status 2).
parse_args(argv) ==
    IF argv = NoFlag THEN [error |-> FALSE, mode |-> "None"]
    ELSE IF argv \in choices THEN [error |-> FALSE, mode |-> argv]
    ELSE [error |-> TRUE, mode |-> "None"]

\* The if / elif chain of main.
main_dispatch(mode) ==
    CASE mode = "e"  -> "run_classifier"
      [] mode = "d"  -> "run_decoder"
      [] mode = "se" -> "run_sanity_check_encoder"
      [] mode = "sd" -> "run_sanity_check_decoder"
      [] OTHER       -> "invalid"

InvalidMode == "Invalid mode. Choose 'c' for classifier or 'd' for decoder."

\* The three prints every pipeline starts with.
Banner == <<"Loading data and creating tokenizer ...", "Vocabulary size is">>

Init ==
    /\ prog \in {[pc |-> "parse_args", argv |-> a, mode |-> "None",
                  pipelines |-> <<>>, stdout |-> <<>>, stderr |-> <<>>,
                  status |-> -1, train_loader |-> <<>>, run |-> FreshRun] :
                    a \in Argv}
    /\ collate = Idle /\ head = Idle /\ block = Idle /\ gen = Idle /\ evalrun = Idle

\* args = parser.parse_args()
ParseArgs ==
    /\ prog.pc = "parse_args"
    /\ LET r == parse_args(prog.argv)
       IN  IF r.error
           THEN prog' = [prog EXCEPT !.pc = "exited", !.status = 2,
                                     !.stderr = <<"usage: invalid choice">>]
           ELSE prog' = [prog EXCEPT !.pc = "dispatch", !.mode = r.mode]
    /\ UNCHANGED <<collate, head, block, gen, evalrun>>

\* if args.mode == "e": ... else: print("Invalid mode. ...")
Dispatch ==
    /\ prog.pc = "dispatch"
    /\ LET f == main_dispatch(prog.mode)
       IN  IF f = "invalid"
           THEN prog' = [prog EXCEPT !.pc = "exited", !.status = 0,
                                     !.stdout = <<InvalidMode>>]
           ELSE prog' = [prog EXCEPT !.pc = f, !.pipelines = Append(@, f)]
    /\ UNCHANGED <<collate, head, block, gen, evalrun>>

\* The status of a process whose pipeline ended in the state m.
ExitStatus(m) == IF m.exc = "none" THEN 0 ELSE 1

\* run_classifier up to the epoch loop: corpus, tokenizer, the two datasets
\* and loaders, the Encoder, the optimizer.
RunClassifierSetup ==
    /\ prog.pc = "run_classifier"
    /\ \E loader \in SeqsUpTo(CLSBatches, MaxTrainBatches) \ {<<>>} :
         prog' = [prog EXCEPT !.pc = "run_classifier_train",
                              !.stdout = Banner \o <<"Total number of parameters:">>,
                              !.train_loader = loader]
    /\ UNCHANGED <<collate, head, block, gen, evalrun>>

\* run_classifier from the epoch loop to its end.
RunClassifierTrain ==
    /\ prog.pc = "run_classifier_train"
    /\ IF EpochLoop(FreshRun, prog.train_loader, 0).exc # "none"
       THEN LET m == EpochLoop(FreshRun, prog.train_loader, 0)
            IN  prog' = [prog EXCEPT !.pc = "exited", !.run = m,
                                     !.status = ExitStatus(m)]
       ELSE \E test_CLS_loader \in SeqsUpTo(CLSBatches, MaxTrainBatches) \ {<<>>} :
              LET m == run_classifier_train(prog.train_loader, test_CLS_loader)
              IN  prog' = [prog EXCEPT !.pc = "exited", !.run = m,
                                       !.status = ExitStatus(m)]
    /\ UNCHANGED <<collate, head, block, gen, evalrun>>

\* run_decoder up to the training loop: corpus, tokenizer, the training
\* dataset and loader, the Decoder, the optimizer.
RunDecoderSetup ==
    /\ prog.pc = "run_decoder"
    /\ \E loader \in SeqsUpTo(LMBatches, MaxTrainBatches) \ {<<>>} :
         prog' = [prog EXCEPT !.pc = "run_decoder_train",
                              !.stdout = Banner \o <<"Total number of parameters:">>,
                              !.train_loader = loader]
    /\ UNCHANGED <<collate, head, block, gen, evalrun>>

\* run_decoder from the training loop to its end.
RunDecoderTrain ==
    /\ prog.pc = "run_decoder_train"
    /\ IF DecoderTrainLoop(FreshRun, prog.train_loader, 0).exc # "none"
       THEN LET m == DecoderTrainLoop(FreshRun, prog.train_loader, 0)
            IN  prog' = [prog EXCEPT !.pc = "exited", !.run = m,
                                     !.status = ExitStatus(m)]
       ELSE \E tests \in [1..3 -> SeqsUpTo(LMBatches, MaxTrainBatches) \ {<<>>}] :
              LET m == run_decoder_train(prog.train_loader, tests)
              IN  prog' = [prog EXCEPT !.pc = "exited", !.run = m,
                                       !.status = ExitStatus(m)]
    /\ UNCHANGED <<collate, head, block, gen, evalrun>>

\* run_sanity_check_encoder: an untrained Encoder handed to
\* Utilities.sanity_check for every text; Utilities lies outside these
\* sources, so the run ends either way.
RunSanityCheckEncoder ==
    /\ prog.pc = "run_sanity_check_encoder"
    /\ \E st \in {0, 1} :
         prog' = [prog EXCEPT !.pc = "exited", !.stdout = Banner, !.status = st]
    /\ UNCHANGED <<collate, head, block, gen, evalrun>>

\* run_sanity_check_decoder: an untrained Decoder handed to
\* Utilities.sanity_check once.
RunSanityCheckDecoder ==
    /\ prog.pc = "run_sanity_check_decoder"
    /\ \E st \in {0, 1} :
         prog' = [prog EXCEPT !.pc = "exited", !.stdout = Banner, !.status = st]
    /\ UNCHANGED <<collate, head, block, gen, evalrun>>

Next ==
    \/ ParseArgs
    \/ Dispatch
    \/ RunClassifierSetup
    \/ RunClassifierTrain
    \/ RunDecoderSetup
    \/ RunDecoderTrain
    \/ RunSanityCheckEncoder
    \/ RunSanityCheckDecoder

Spec == Init /\ [][Next]_vars

Exited == prog.pc = "exited"

\* C5 as stated: each valid mode runs exactly its pipeline, and any other
\* value, the absent flag included, prints the invalid-mode message, runs no
\* pipeline and exits normally.
C5_Original ==
    /\ Len(prog.pipelines) <= 1
    /\ \A k \in 1..Len(prog.pipelines) :
         prog.argv \in choices /\ prog.pipelines[k] = main_dispatch(prog.argv)
    /\ Exited /\ prog.argv \in choices => Len(prog.pipelines) = 1
    /\ Exited /\ prog.argv \notin choices =>
         /\ prog.stdout = <<InvalidMode>>
         /\ prog.pipelines = <<>>
         /\ prog.status = 0

\* C5, amended: each valid mode runs exactly its pipeline; the absent flag
\* prints the invalid-mode message, runs no pipeline and exits normally; any
\* other value is rejected by the argument parser, which runs no pipeline,
\* prints no invalid-mode message and exits with status 2.
C5_Amended ==
    /\ Len(prog.pipelines) <= 1
    /\ \A k \in 1..Len(prog.pipelines) :
         prog.argv \in choices /\ prog.pipelines[k] = main_dispatch(prog.argv)
    /\ Exited /\ prog.argv \in choices => Len(prog.pipelines) = 1
    /\ Exited /\ prog.argv = NoFlag =>
         /\ prog.stdout = <<InvalidMode>>
         /\ prog.pipelines = <<>>
         /\ prog.status = 0
    /\ Exited /\ prog.argv \notin choices \cup {NoFlag} =>
         /\ prog.stdout = <<>>
         /\ prog.stderr # <<>>
         /\ prog.pipelines = <<>>
         /\ prog.status = 2

\* A run given a mode outside the choices, after the parser turned it down.
C5_Witness ==
    /\ Exited
    /\ prog.argv \notin choices \cup {NoFlag}
    /\ prog.status = 2

\* Event k of the run is an optimizer step.
IsStep(k) == prog.run.events[k].op = "step"

\* C9: run_decoder makes exactly min(500, number of training batches)
\* optimizer steps, then evaluates perplexity once on the training loader and
\* five times on each of the three held-out files, 16 evaluations and 16
\* printed lines in all, and no optimizer step follows an evaluation.
C9_DecoderSchedule ==
    Exited /\ prog.pipelines = <<"run_decoder">> =>
        /\ prog.run.exc = "none"
        /\ Count(prog.run.events, "step") = Min(max_iters, Len(prog.train_loader))
        /\ Count(prog.run.events, "compute_perplexity") = 16
        /\ Count(prog.run.events, "print") = 16
        /\ \A j, k \in 1..Len(prog.run.events) :
             prog.run.events[j].op = "compute_perplexity" /\ j < k => ~IsStep(k)

\* C10: every train_epoch gives each batch of the loader exactly one forward
\* pass and one optimizer step, gradients cleared, computed and applied in
\* that order, and run_classifier calls it exactly epochs_CLS times before
\* the one held-out accuracy evaluation.
C10_ClassifierSchedule ==
    Exited /\ prog.pipelines = <<"run_classifier">> =>
        /\ prog.run.exc = "none"
        /\ Count(prog.run.events, "train_epoch") = epochs_CLS
        /\ Count(prog.run.events, "step") = epochs_CLS * Len(prog.train_loader)
        /\ Count(prog.run.events, "compute_classifier_accuracy") = 1
        /\ \A k \in 1..Len(prog.run.events) :
             IsStep(k) =>
                 /\ k > 3
                 /\ prog.run.events[k - 1].op = "backward"
                 /\ prog.run.events[k - 2].op = "zero_grad"
                 /\ prog.run.events[k - 3].op = "forward"
        /\ \A j, k \in 1..Len(prog.run.events) :
             prog.run.events[j].op = "compute_classifier_accuracy" /\ j < k =>
                 prog.run.events[k].op \notin {"train_epoch", "step"}

====
